---- MODULE Spec2Model ----
(***************************************************************************)
(* The tool-call orchestration loop of superdoc-ai-tools: the app shell    *)
(* (src/src/App.vue, the script that imports handleOpenPrompt and          *)
(* executeToolCallsFromPrompt) together with src/src/actions.js.           *)
(*                                                                         *)
(* One step of the model is one run-to-completion job of the browser's     *)
(* event loop: the synchronous part of a handler up to its next await.     *)
(* A continuation that is already runnable (a microtask) runs before any   *)
(* new event (click, network answer, library callback) is delivered.       *)
(*                                                                         *)
(* The characters U+2717 and U+2713 that start a result line are written   *)
(* "[x]" and "[v]" here.                                                   *)
(***************************************************************************)
EXTENDS Integers, Sequences, FiniteSets, TLC

VARIABLES
  actionLogs,      \* App.vue: const actionLogs = ref([])
  currentLogId,    \* App.vue: let currentLogId = 0
  buttonsEnabled,  \* App.vue: const buttonsEnabled = ref(false)
  env,             \* import.meta.env: which settings are configured
  instances,       \* the AIActions objects built so far, each "connecting", "ready" or "failed"
  imports,         \* documents imported so far
  streams,         \* operations that have started to stream so far
  calls,           \* tool calls received from the endpoint so far
  nTurns,          \* triggers accepted by executeAction so far
  turns,           \* per accepted trigger: the position and locals of its executeAction call
  evaluated,       \* the last application of a helper on its own: function, argument, value
  availableActions, \* App.vue: const availableActions = ref(...), the action registry
  relay            \* proxy/server.js: the request the relay is serving, and its reply

component == <<actionLogs, currentLogId, buttonsEnabled, env, instances, imports, streams,
               calls, nTurns, turns, availableActions>>

vars == <<actionLogs, currentLogId, buttonsEnabled, env, instances, imports, streams,
          calls, nTurns, turns, evaluated, availableActions, relay>>

----------------------------------------------------------------------------
(* Bounds of the model *)

MaxTurns == 2
MaxCalls == 2
MaxImports == 1
MaxStreams == 1

(* Program constants *)

MaxLength == 100

\* The longest text given to a helper applied on its own
MaxTextLength == 105

----------------------------------------------------------------------------
(* Values *)

null == "<null>"
undefined == "<undefined>"
NoId == -1

RECURSIVE Rep(_, _)
Rep(s, n) == IF n = 0 THEN "" ELSE s \o Rep(s, n - 1)

ShortText == "Hello"
LongText == Rep("abcdefghij", 10) \o "k"

\* String(x) of JavaScript, on the values a text field can hold here
String(x) == IF x = null THEN "null" ELSE IF x = undefined THEN "undefined" ELSE x

\* !text of JavaScript, on the same values
Falsy(x) == x = null \/ x = undefined \/ x = ""

\* truncateText with >= for > in line 4: a text of exactly maxLength characters is cut
truncateTextCutsAtLimit(text, maxLength) ==
  IF Falsy(text) THEN ""
  ELSE IF Len(text) >= maxLength THEN SubSeq(text, 1, maxLength) \o "..." ELSE text

\* truncateText with the wrong bounds for substring in line 4: the end of the text is kept
truncateTextKeepsEnd(text, maxLength) ==
  IF Falsy(text) THEN ""
  ELSE IF Len(text) > maxLength
       THEN SubSeq(text, Len(text) - maxLength + 1, Len(text)) \o "..."
       ELSE text

truncateText(text, maxLength) ==
  IF Falsy(text) THEN ""
  ELSE IF Len(text) > maxLength THEN SubSeq(text, 1, maxLength) \o "..." ELSE text

----------------------------------------------------------------------------
(* The session log *)

NewLog(id, action, prompt) ==
  [id |-> id, action |-> action, prompt |-> prompt, status |-> "Starting...",
   partialResult |-> null, fullResult |-> null, error |-> null]

\* Object.assign(target, updates)
Assign(target, updates) ==
  [f \in DOMAIN target |-> IF f \in DOMAIN updates THEN updates[f] ELSE target[f]]

\* addActionLog without the ++ of line 816: the new record takes the id of the last one
addActionLogKeepsId(logs, id, action, prompt) ==
  Append(logs, NewLog(IF logs = <<>> THEN id ELSE logs[Len(logs)].id, action, prompt))

addActionLog(logs, id, action, prompt) == Append(logs, NewLog(id, action, prompt))

updateCurrentLog(logs, updates) ==
  IF Len(logs) > 0
  THEN [logs EXCEPT ![Len(logs)] = Assign(logs[Len(logs)], updates)]
  ELSE logs

\* Array.prototype.findIndex(log => log.id === id); 0 stands for -1
findIndex(logs, id) ==
  IF \E k \in 1..Len(logs) : logs[k].id = id
  THEN CHOOSE k \in 1..Len(logs) :
         logs[k].id = id /\ \A m \in 1..(k - 1) : logs[m].id # id
  ELSE 0

\* !originalLogId of JavaScript: true of 0 and of undefined
NotId(originalLogId) == originalLogId = 0 \/ originalLogId = NoId

ExecutingStatus(n) == "Executing " \o ToString(n) \o " function call(s)..."
AllCompletedStatus(n) == "All " \o ToString(n) \o " function calls completed."

updateOriginalLog(logs, originalLogId, toolCallsCount) ==
  IF NotId(originalLogId) THEN logs
  ELSE LET k == findIndex(logs, originalLogId)
       IN IF k # 0
          THEN [logs EXCEPT ![k].status = AllCompletedStatus(toolCallsCount)]
          ELSE logs

\* handleError without line 118: the status is set and the message is dropped
handleErrorDropsMessage(logs, originalLogId, message) ==
  IF ~NotId(originalLogId)
  THEN LET k == findIndex(logs, originalLogId)
       IN IF k # 0 THEN [logs EXCEPT ![k].status = "Open prompt failed."] ELSE logs
  ELSE updateCurrentLog(logs, [status |-> "Open prompt failed."])

handleError(logs, originalLogId, message) ==
  IF ~NotId(originalLogId)
  THEN LET k == findIndex(logs, originalLogId)
       IN IF k # 0
          THEN [logs EXCEPT ![k].status = "Open prompt failed.", ![k].error = message]
          ELSE logs
  ELSE updateCurrentLog(logs, [status |-> "Open prompt failed.", error |-> message])

----------------------------------------------------------------------------
(* The action registry *)

\* An entry's method calls the operation of the same name on ai.action
Entry(key, label, description) ==
  [key |-> key, label |-> label, description |-> description, method |-> key]

\* actions.js: export const actionsDictionary, in the order its keys are written
actionsDictionary == <<
  Entry("find", "Find",
    "Find the first occurrence of content in the document based on a search instruction"),
  Entry("findAll", "Find All",
    "Find all occurrences of content in the document based on a search instruction"),
  Entry("highlight", "Highlight",
    "Highlight specific text or sections in the document with optional color"),
  Entry("replace", "Replace",
    "Replace the first occurrence of content in the document with new text"),
  Entry("replaceAll", "Replace All",
    "Replace all occurrences of content in the document with new text"),
  Entry("insertTrackedChange", "Insert Tracked Change",
    "Insert a single tracked change or suggestion in the document for review"),
  Entry("insertTrackedChanges", "Insert Multiple Tracked Changes",
    "Insert multiple tracked changes or suggestions throughout the document"),
  Entry("insertComment", "Insert Comment",
    "Add a single comment or annotation to a specific part of the document"),
  Entry("insertComments", "Insert Multiple Comments",
    "Add multiple comments or annotations throughout the document"),
  Entry("summarize", "Summarize",
    "Generate a summary of the document content or specific sections"),
  Entry("insertContent", "Insert Content",
    "Insert new content, text, or sections into the document at appropriate locations") >>

\* The UTF-16 order of the characters that occur in keys
Alphabet == "ABCDEFGHIJKLMNOPQRSTUVWXYZabcdefghijklmnopqrstuvwxyz"
CharCode(c) == CHOOSE k \in 1..Len(Alphabet) : SubSeq(Alphabet, k, k) = c

\* a < b in the order Array.prototype.sort() uses by default
RECURSIVE StringLess(_, _)
StringLess(a, b) ==
  IF b = "" THEN FALSE
  ELSE IF a = "" THEN TRUE
  ELSE LET ca == CharCode(SubSeq(a, 1, 1))
           cb == CharCode(SubSeq(b, 1, 1))
       IN IF ca # cb THEN ca < cb
          ELSE StringLess(SubSeq(a, 2, Len(a)), SubSeq(b, 2, Len(b)))

\* Object.keys(actionsDictionary).sort().map(key => ({key, ...actionsDictionary[key]}))
\* The registry without the sort() of line 784: the actions in dictionary order
UnsortedActions(dict) == dict

SortedActions(dict) ==
  LET n == Len(dict)
      Rank(k) == Cardinality({m \in 1..n : StringLess(dict[m].key, dict[k].key)})
  IN [p \in 1..n |-> dict[CHOOSE k \in 1..n : Rank(k) = p - 1]]

\* Lines 782-789 of App.vue (buildAvailableActions in the class-based draft): the
\* value availableActions is given when the component is set up
buildAvailableActions == SortedActions(actionsDictionary)

\* availableActions.value.find(a => a.key === functionName); 0 stands for undefined
FindAction(functionName) ==
  IF \E k \in 1..Len(availableActions) : availableActions[k].key = functionName
  THEN CHOOSE k \in 1..Len(availableActions) : availableActions[k].key = functionName
  ELSE 0

convertToOpenAITool(action) ==
  [type |-> "function",
   function |->
     [name |-> action.key,
      description |-> action.description,
      parameters |->
        [type |-> "object",
         properties |->
           [prompt |-> [type |-> "string",
                        description |-> "The specific instruction or prompt for this action"]],
         required |-> <<"prompt">>]]]

\* buildToolsArray that still leaves the first entry out, as when openPrompt was one
buildToolsArrayFiltered(actions) ==
  [k \in 1..(Len(actions) - 1) |-> convertToOpenAITool(actions[k + 1])]

buildToolsArray(actions) == [k \in 1..Len(actions) |-> convertToOpenAITool(actions[k])]

----------------------------------------------------------------------------
(* Tool calls and their arguments *)

ArgsPrefix == "{\"prompt\":\""
ArgsSuffix == "\"}"

\* JSON.parse on the payloads a tool call carries here: the object {"prompt":"<text>"},
\* the empty object {} and the value null parse; any other text is a SyntaxError.
\* value.prompt is the member read of the parsed value; reading it of null throws too.
JSONparse(text) ==
  LET n == Len(text)
      p == Len(ArgsPrefix)
      q == Len(ArgsSuffix)
  IN IF n >= p + q /\ SubSeq(text, 1, p) = ArgsPrefix /\ SubSeq(text, n - q + 1, n) = ArgsSuffix
     THEN [ok |-> TRUE, isObject |-> TRUE, prompt |-> SubSeq(text, p + 1, n - q)]
     ELSE IF text = "{}" THEN [ok |-> TRUE, isObject |-> TRUE, prompt |-> undefined]
     ELSE IF text = "null" THEN [ok |-> TRUE, isObject |-> FALSE, prompt |-> undefined]
     ELSE [ok |-> FALSE, isObject |-> FALSE, prompt |-> undefined]

SyntaxErrorMessage == "Unexpected end of JSON input"
TypeErrorMessage == "Cannot read properties of null (reading 'prompt')"

ToolCall(name, arguments) == [name |-> name, arguments |-> arguments]

GoodArguments == "{\"prompt\":\"make the title bold\"}"
MalformedArguments == "{\"prompt\":"

\* The tool calls a model response is built from: one that names a registry action,
\* one that names none, one whose arguments are cut short, one whose arguments are null
ToolCallInputs ==
  { ToolCall("highlight", GoodArguments),
    ToolCall("translate", GoodArguments),
    ToolCall("replace", MalformedArguments),
    ToolCall("highlight", "null") }

RECURSIVE SeqsUpTo(_, _)
SeqsUpTo(S, n) ==
  IF n = 0 THEN {<<>>}
  ELSE LET shorter == SeqsUpTo(S, n - 1)
       IN shorter \cup {Append(q, x) : q \in {r \in shorter : Len(r) = n - 1}, x \in S}

Batches == {b \in SeqsUpTo(ToolCallInputs, MaxCalls) : Len(b) > 0}

NotFoundLine(functionName) == "[x] " \o functionName \o ": Tool not found"
DoneLine(label, prompt) == "[v] " \o label \o ": \"" \o String(prompt) \o "\""
ErrorLine(label, message) == "[x] " \o label \o ": Error - " \o message

RECURSIVE Join(_, _)
Join(lines, sep) ==
  IF Len(lines) = 0 THEN ""
  ELSE IF Len(lines) = 1 THEN lines[1]
  ELSE lines[1] \o sep \o Join(Tail(lines), sep)

BatchSummary(toolResults) == "Function calls executed:\n" \o Join(toolResults, "\n")

----------------------------------------------------------------------------
(* The completion endpoint *)

ConfigurationErrorMessage == "VITE_PROXY_URL not configured"
HttpErrorMessage(status) == "HTTP error! status: " \o ToString(status)
NetworkErrorMessage == "Failed to fetch"

\* A response body: message is FALSE when choices[0].message is absent
Data(message, toolCalls, content, topContent) ==
  [message |-> message, tool_calls |-> toolCalls, content |-> content,
   topContent |-> topContent]

\* JSON.stringify of a string (of characters that need no escape) or of null
JSONvalue(x) == IF x = null THEN "null" ELSE "\"" \o x \o "\""

\* JSON.stringify(data) for a body without tool calls: the choices member when the
\* first choice has a message, then the top-level content member when there is one
Stringify(data) ==
  LET inner == IF data.content = undefined THEN "" ELSE "\"content\":" \o JSONvalue(data.content)
      choices == IF data.message
                 THEN "\"choices\":[{\"message\":{" \o inner \o "}}]"
                 ELSE ""
      top == IF data.topContent = undefined THEN ""
             ELSE "\"content\":" \o JSONvalue(data.topContent)
      comma == IF choices # "" /\ top # "" THEN "," ELSE ""
  IN "{" \o choices \o comma \o top \o "}"

\* handleOpenPrompt without the last operand of line 157: no serialized response
ClassifyWithoutFallback(data) ==
  IF data.message /\ Len(data.tool_calls) > 0
  THEN [type |-> "tool_calls", toolCalls |-> data.tool_calls,
        count |-> Len(data.tool_calls), content |-> undefined]
  ELSE LET fromMessage == IF data.message THEN data.content ELSE undefined
           result == IF ~Falsy(fromMessage) THEN fromMessage ELSE data.topContent
       IN [type |-> "text_response", toolCalls |-> <<>>, count |-> 0, content |-> result]

\* Lines 142-165 of handleOpenPrompt: what it returns for a response body
Classify(data) ==
  IF data.message /\ Len(data.tool_calls) > 0
  THEN [type |-> "tool_calls", toolCalls |-> data.tool_calls,
        count |-> Len(data.tool_calls), content |-> undefined]
  ELSE LET fromMessage == IF data.message THEN data.content ELSE undefined
           result == IF ~Falsy(fromMessage) THEN fromMessage
                     ELSE IF ~Falsy(data.topContent) THEN data.topContent
                     ELSE Stringify(data)
       IN [type |-> "text_response", toolCalls |-> <<>>, count |-> 0, content |-> result]

HttpErrorStatuses == {500}

\* What the network can deliver for one fetch: no answer at all, an answer with a
\* non-success status, a text reply, or a reply with tool calls
Responses ==
  {[kind |-> "network", status |-> 0, data |-> Data(FALSE, <<>>, null, undefined)]}
  \cup {[kind |-> "http", status |-> st, data |-> Data(FALSE, <<>>, null, undefined)] :
          st \in HttpErrorStatuses}
  \cup {[kind |-> "ok", status |-> 200, data |-> Data(TRUE, <<>>, LongText, undefined)]}
  \cup {[kind |-> "ok", status |-> 200, data |-> Data(TRUE, b, null, undefined)] :
          b \in Batches}

----------------------------------------------------------------------------
(* The state of one executeAction call *)

IdleTurn ==
  [pc |-> "idle",            \* where the call stands
   mode |-> "prompt",        \* mode.value when it was accepted
   prompt |-> "",            \* promptToExecute
   originalLogId |-> NoId,   \* originalLogId
   waitOn |-> 0,             \* the AIActions object whose waitUntilReady() is awaited
   selected |-> 0,           \* index of selectedAction.value in availableActions
   response |-> [type |-> "none", toolCalls |-> <<>>, count |-> 0, content |-> undefined],
   next |-> 0,               \* index of the tool call the for loop takes next
   results |-> <<>>,         \* results of executeToolCalls
   fly |-> <<>>,             \* operations in flight: index |-> state of its stream
   logIds |-> <<>>,          \* index |-> id of the record appended for that tool call
   invoked |-> <<>>,         \* the operations invoked so far: index, method, prompt
   requests |-> 0,           \* fetches sent
   error |-> null,           \* message of the error being thrown
   returned |-> undefined]   \* value of the last completed call of actions.js

Turns == 1..MaxTurns

Pc(t) == turns[t].pc

InFlight(t) == DOMAIN turns[t].fly

\* The loop of executeToolCalls without the await of line 93: every tool call is
\* started at once
LoopDoesNotAwait(t) == TRUE

\* The await of line 93 of actions.js: the loop takes the next tool call only once
\* the promise of the previous executeToolCall has settled
LoopMayProceed(t) == InFlight(t) = {}

\* A continuation of turn t is runnable: it runs before any new event is delivered
Runnable(t) ==
  \/ Pc(t) \in {"hopCatch", "hopRejected", "hopReturned", "batchRejected", "toolRejected"}
  \/ Pc(t) = "batch" /\ turns[t].next <= turns[t].response.count /\ LoopMayProceed(t)
  \/ Pc(t) = "batch" /\ turns[t].next > turns[t].response.count /\ InFlight(t) = {}
  \/ Pc(t) = "waitReady" /\ instances[turns[t].waitOn] # "connecting"

MicrotaskPending == \E t \in Turns : Runnable(t)

\* aiInstance.value: the AIActions object built last, 0 for null
aiInstance == Len(instances)

Without(f, j) == [k \in DOMAIN f \ {j} |-> f[k]]

----------------------------------------------------------------------------
(* Start-up, document import and the AIActions life cycle *)

\* initializeAI, called by onEditorCreate of every SuperDoc editor that is constructed:
\* without any credential it returns null and leaves aiInstance as it is
initializeAI(built) ==
  IF ~env.apiKey /\ ~env.proxyUrl THEN built ELSE Append(built, "connecting")

\* No helper has been applied on its own
NotEvaluated == [function |-> "none", argument |-> null, value |-> null]

\* The relay service (proxy/server.js) before it has received a request
NoMembers == <<>>
RelayIdle ==
  [pc |-> "idle", route |-> "none", key |-> undefined, body |-> NoMembers,
   forwarded |-> <<>>, response |-> <<>>, reply |-> <<>>]

\* The state once onMounted has run and the first editor has been created
Init ==
  /\ actionLogs = <<>>
  /\ currentLogId = 0
  /\ buttonsEnabled = FALSE
  /\ env \in {[proxyUrl |-> TRUE, apiKey |-> FALSE],
              [proxyUrl |-> FALSE, apiKey |-> TRUE],
              [proxyUrl |-> FALSE, apiKey |-> FALSE]}
  /\ instances = initializeAI(<<>>)
  /\ imports = 0
  /\ streams = 0
  /\ calls = 0
  /\ nTurns = 0
  /\ turns = [t \in Turns |-> IdleTurn]
  /\ evaluated = NotEvaluated
  /\ availableActions = buildAvailableActions
  /\ relay = RelayIdle

\* importDocument: the Import button is always enabled; initializeSuperdoc(file) builds
\* a new editor, whose onEditorCreate calls initializeAI
ImportDocument ==
  /\ ~MicrotaskPending
  /\ imports < MaxImports
  /\ imports' = imports + 1
  /\ instances' = initializeAI(instances)
  /\ UNCHANGED <<relay, evaluated, availableActions, actionLogs, currentLogId, buttonsEnabled, env, streams, calls, nTurns, turns>>

\* onReady of AIActions object k
OnReady(k) ==
  /\ ~MicrotaskPending
  /\ instances[k] = "connecting"
  /\ instances' = [instances EXCEPT ![k] = "ready"]
  /\ buttonsEnabled' = TRUE
  /\ UNCHANGED <<relay, evaluated, availableActions, actionLogs, currentLogId, env, imports, streams, calls, nTurns, turns>>

\* waitUntilReady() of AIActions object k rejects: only the status text changes
InitializationFails(k) ==
  /\ ~MicrotaskPending
  /\ instances[k] = "connecting"
  /\ instances' = [instances EXCEPT ![k] = "failed"]
  /\ UNCHANGED <<relay, evaluated, availableActions, actionLogs, currentLogId, buttonsEnabled, env, imports, streams,
                 calls, nTurns, turns>>

----------------------------------------------------------------------------
(* executeAction and handleOpenPrompt *)

RECURSIVE trim(_)
trim(text) ==
  IF text = "" THEN ""
  ELSE IF SubSeq(text, 1, 1) = " " THEN trim(SubSeq(text, 2, Len(text)))
  ELSE IF SubSeq(text, Len(text), Len(text)) = " " THEN trim(SubSeq(text, 1, Len(text) - 1))
  ELSE text

Prompts == {"", "  ", "fix the typos"}
Modes == {"prompt", "tool"}
SelectableActions == {1}

\* The Sidebar emits execute-action only while its buttons-enabled prop is true
TriggerEnabled == buttonsEnabled

\* Lines 915-923 of executeAction: the trigger is turned away
Rejects(p) == aiInstance = 0 \/ trim(p) = ""

\* A rejection that closes the gate as an accepted trigger does
RejectTriggerClosesGate(p) ==
  /\ ~MicrotaskPending
  /\ TriggerEnabled
  /\ Rejects(p)
  /\ buttonsEnabled' = FALSE
  /\ UNCHANGED <<relay, evaluated, availableActions, actionLogs, currentLogId, env, instances, imports, streams, calls, nTurns, turns>>

\* executeAction returns at line 918 or 923: only the status text is set
RejectTrigger(p) ==
  /\ ~MicrotaskPending
  /\ TriggerEnabled
  /\ Rejects(p)
  /\ UNCHANGED vars

\* executeAction up to its first await, handleOpenPrompt and callOpenAI included
ExecuteAction(m, p, sel) ==
  /\ ~MicrotaskPending
  /\ TriggerEnabled
  /\ ~Rejects(p)
  /\ nTurns < MaxTurns
  /\ LET t == nTurns + 1
         logLabel == IF m = "prompt" THEN "Open Prompt" ELSE availableActions[sel].label
         added == addActionLog(actionLogs, currentLogId, logLabel, p)
         originalLogId == added[Len(added)].id
         started == [IdleTurn EXCEPT !.mode = m, !.prompt = p,
                                     !.originalLogId = originalLogId, !.selected = sel]
     IN /\ nTurns' = t
        /\ currentLogId' = currentLogId + 1
        /\ buttonsEnabled' = FALSE
        /\ IF m = "prompt"
           THEN /\ actionLogs' = updateCurrentLog(added, [status |-> "Processing open prompt..."])
                /\ turns' = [turns EXCEPT ![t] =
                     IF ~env.proxyUrl
                     THEN [started EXCEPT !.pc = "hopCatch",
                                          !.error = ConfigurationErrorMessage]
                     ELSE [started EXCEPT !.pc = "callOpenAI", !.requests = 1]]
           ELSE /\ actionLogs' = added
                /\ turns' = [turns EXCEPT ![t] =
                     [started EXCEPT !.pc = "waitReady", !.waitOn = aiInstance]]
  /\ UNCHANGED <<relay, evaluated, availableActions, env, instances, imports, streams, calls>>

\* The fetch of callOpenAI settles, and handleOpenPrompt runs on to its return or its catch
FetchSettles(t, r) ==
  /\ ~MicrotaskPending
  /\ Pc(t) = "callOpenAI"
  /\ calls + Len(r.data.tool_calls) <= MaxCalls
  /\ calls' = calls + Len(r.data.tool_calls)
  /\ IF r.kind = "ok"
     THEN LET outcome == Classify(r.data)
          IN /\ actionLogs' =
                  IF outcome.type = "tool_calls"
                  THEN updateCurrentLog(actionLogs, [status |-> ExecutingStatus(outcome.count)])
                  ELSE updateCurrentLog(actionLogs,
                         [status |-> "No tools were run.",
                          fullResult |-> truncateText(String(outcome.content), MaxLength)])
             /\ turns' = [turns EXCEPT ![t].pc = "hopReturned", ![t].response = outcome,
                                       ![t].returned = outcome.content]
     ELSE /\ actionLogs' = actionLogs
          /\ turns' = [turns EXCEPT ![t].pc = "hopCatch",
                         ![t].error = IF r.kind = "network" THEN NetworkErrorMessage
                                      ELSE HttpErrorMessage(r.status)]
  /\ UNCHANGED <<relay, evaluated, availableActions, currentLogId, buttonsEnabled, env, instances, imports, streams, nTurns>>

\* A catch of handleOpenPrompt that tries the request once more instead of giving up
HandleOpenPromptCatchRetries(t) ==
  /\ Pc(t) = "hopCatch"
  /\ actionLogs' = actionLogs
  /\ turns' = [turns EXCEPT ![t].pc = IF env.proxyUrl THEN "callOpenAI" ELSE "hopRejected",
                            ![t].requests = IF env.proxyUrl THEN @ + 1 ELSE @]
  /\ UNCHANGED <<relay, evaluated, availableActions, currentLogId, buttonsEnabled, env, instances, imports, streams, calls, nTurns>>

\* catch of handleOpenPrompt: handleError, then throw error
HandleOpenPromptCatch(t) ==
  /\ Pc(t) = "hopCatch"
  /\ actionLogs' = handleError(actionLogs, turns[t].originalLogId, turns[t].error)
  /\ turns' = [turns EXCEPT ![t].pc = "hopRejected"]
  /\ UNCHANGED <<relay, evaluated, availableActions, currentLogId, buttonsEnabled, env, instances, imports, streams, calls, nTurns>>

\* An executeAction without a catch: the finally block runs and the error goes on to
\* the caller
ExecuteActionCatchRethrows(t) ==
  /\ Pc(t) \in {"hopRejected", "batchRejected", "toolRejected"}
  /\ actionLogs' = actionLogs
  /\ buttonsEnabled' = TRUE
  /\ turns' = [turns EXCEPT ![t].pc = "rejected"]
  /\ UNCHANGED <<relay, evaluated, availableActions, currentLogId, env, instances, imports, streams, calls, nTurns>>

\* A catch of executeAction that is not followed by the finally block
ExecuteActionCatchWithoutFinally(t) ==
  /\ Pc(t) \in {"hopRejected", "batchRejected", "toolRejected"}
  /\ actionLogs' = updateCurrentLog(actionLogs, [status |-> "Error", error |-> turns[t].error])
  /\ buttonsEnabled' = buttonsEnabled
  /\ turns' = [turns EXCEPT ![t].pc = "done"]
  /\ UNCHANGED <<relay, evaluated, availableActions, currentLogId, env, instances, imports, streams, calls, nTurns>>

\* catch and finally of executeAction
ExecuteActionCatch(t) ==
  /\ Pc(t) \in {"hopRejected", "batchRejected", "toolRejected"}
  /\ actionLogs' = updateCurrentLog(actionLogs, [status |-> "Error", error |-> turns[t].error])
  /\ buttonsEnabled' = TRUE
  /\ turns' = [turns EXCEPT ![t].pc = "done"]
  /\ UNCHANGED <<relay, evaluated, availableActions, currentLogId, env, instances, imports, streams, calls, nTurns>>

\* executeAction after handleOpenPrompt has returned: lines 945-949, then finally
ExecuteActionResume(t) ==
  /\ Pc(t) = "hopReturned"
  /\ IF turns[t].response.type = "tool_calls"
     THEN /\ turns' = [turns EXCEPT ![t].pc = "batch", ![t].next = 1]
          /\ buttonsEnabled' = buttonsEnabled
     ELSE /\ turns' = [turns EXCEPT ![t].pc = "done"]
          /\ buttonsEnabled' = TRUE
  /\ UNCHANGED <<relay, evaluated, availableActions, actionLogs, currentLogId, env, instances, imports, streams, calls, nTurns>>

----------------------------------------------------------------------------
(* executeToolCallsFromPrompt, executeToolCalls and executeToolCall *)

OperationErrorMessage == "Document operation failed"
InitializationErrorMessage == "AI provider is not available"

\* action.method(aiInstance.value, args.prompt): the operation, the AIActions object
\* that aiInstance holds at the time of the call, and the prompt
Invoked(j, method, prompt) ==
  [index |-> j, method |-> method, ai |-> aiInstance, prompt |-> prompt]

\* One pass of the for loop of executeToolCalls: executeToolCall up to its return,
\* its throw or its await of action.method
ExecuteToolCall(t) ==
  /\ Pc(t) = "batch"
  /\ turns[t].next <= turns[t].response.count
  /\ LoopMayProceed(t)
  /\ LET j == turns[t].next
         toolCall == turns[t].response.toolCalls[j]
         functionName == toolCall.name
         args == JSONparse(toolCall.arguments)
         a == FindAction(functionName)
     IN IF ~args.ok
        THEN \* line 62 throws: the rejection passes through every await up to executeAction
             /\ turns' = [turns EXCEPT ![t].pc = "batchRejected", ![t].error = SyntaxErrorMessage]
             /\ UNCHANGED <<relay, evaluated, availableActions, actionLogs, currentLogId>>
        ELSE IF a = 0
        THEN IF ~args.isObject
             THEN \* line 67 throws while it reads args.prompt
                  /\ turns' = [turns EXCEPT ![t].pc = "batchRejected",
                                            ![t].error = TypeErrorMessage]
                  /\ UNCHANGED <<relay, evaluated, availableActions, actionLogs, currentLogId>>
             ELSE /\ actionLogs' = updateCurrentLog(
                        addActionLog(actionLogs, currentLogId, functionName, args.prompt),
                        [status |-> "Error", error |-> "Tool not found"])
                  /\ currentLogId' = currentLogId + 1
                  /\ turns' = [turns EXCEPT
                        ![t].results = Append(@, NotFoundLine(functionName)),
                        ![t].logIds = @ @@ (j :> currentLogId),
                        ![t].next = j + 1]
        ELSE IF ~args.isObject
        THEN \* line 73 throws inside the try block, before addActionLog is called
             /\ actionLogs' = updateCurrentLog(actionLogs,
                                [status |-> "Error", error |-> TypeErrorMessage])
             /\ currentLogId' = currentLogId
             /\ turns' = [turns EXCEPT
                   ![t].results = Append(@, ErrorLine(availableActions[a].label, TypeErrorMessage)),
                   ![t].next = j + 1]
        ELSE /\ actionLogs' = addActionLog(actionLogs, currentLogId,
                                           availableActions[a].label, args.prompt)
             /\ currentLogId' = currentLogId + 1
             /\ turns' = [turns EXCEPT
                   ![t].fly = @ @@ (j :> "idle"),
                   ![t].logIds = @ @@ (j :> currentLogId),
                   ![t].invoked = Append(@, Invoked(j, availableActions[a].method, args.prompt)),
                   ![t].next = j + 1]
  /\ UNCHANGED <<relay, evaluated, availableActions, buttonsEnabled, env, instances, imports, streams, calls, nTurns>>

\* The operation of tool call j resolves: lines 78-79 of executeToolCall
ToolCallResolves(t, j) ==
  /\ ~MicrotaskPending
  /\ Pc(t) = "batch"
  /\ j \in InFlight(t)
  /\ turns[t].fly[j] \in {"idle", "ended"}
  /\ LET toolCall == turns[t].response.toolCalls[j]
         action == availableActions[FindAction(toolCall.name)]
     IN /\ actionLogs' = updateCurrentLog(actionLogs, [status |-> "Done."])
        /\ turns' = [turns EXCEPT
              ![t].fly = Without(@, j),
              ![t].results = Append(@, DoneLine(action.label, JSONparse(toolCall.arguments).prompt))]
  /\ UNCHANGED <<relay, evaluated, availableActions, currentLogId, buttonsEnabled, env, instances, imports, streams, calls, nTurns>>

\* The operation of tool call j throws: lines 81-85 of executeToolCall
ToolCallRejects(t, j) ==
  /\ ~MicrotaskPending
  /\ Pc(t) = "batch"
  /\ j \in InFlight(t)
  /\ turns[t].fly[j] \in {"idle", "errored"}
  /\ LET toolCall == turns[t].response.toolCalls[j]
         action == availableActions[FindAction(toolCall.name)]
     IN /\ actionLogs' = updateCurrentLog(actionLogs,
                           [status |-> "Error", error |-> OperationErrorMessage])
        /\ turns' = [turns EXCEPT
              ![t].fly = Without(@, j),
              ![t].results = Append(@, ErrorLine(action.label, OperationErrorMessage))]
  /\ UNCHANGED <<relay, evaluated, availableActions, currentLogId, buttonsEnabled, env, instances, imports, streams, calls, nTurns>>

\* The loop is over: updateOriginalLog, the summary, and the finally of executeAction
FinishBatch(t) ==
  /\ Pc(t) = "batch"
  /\ turns[t].next > turns[t].response.count
  /\ InFlight(t) = {}
  /\ actionLogs' = updateOriginalLog(actionLogs, turns[t].originalLogId,
                                     Len(turns[t].response.toolCalls))
  /\ buttonsEnabled' = TRUE
  /\ turns' = [turns EXCEPT ![t].pc = "done", ![t].returned = BatchSummary(turns[t].results)]
  /\ UNCHANGED <<relay, evaluated, availableActions, currentLogId, env, instances, imports, streams, calls, nTurns>>

----------------------------------------------------------------------------
(* Tool mode: the selected action is run directly *)

\* await aiInstance.value.waitUntilReady() settles; on success the method is called
WaitUntilReadySettles(t) ==
  /\ Pc(t) = "waitReady"
  /\ instances[turns[t].waitOn] # "connecting"
  /\ IF instances[turns[t].waitOn] = "ready"
     THEN turns' = [turns EXCEPT
            ![t].pc = "toolOp",
            ![t].fly = (1 :> "idle"),
            ![t].invoked = Append(@, Invoked(1, availableActions[turns[t].selected].method,
                                             turns[t].prompt))]
     ELSE turns' = [turns EXCEPT ![t].pc = "toolRejected",
                                 ![t].error = InitializationErrorMessage]
  /\ UNCHANGED <<relay, evaluated, availableActions, actionLogs, currentLogId, buttonsEnabled, env, instances, imports, streams, calls, nTurns>>

\* The selected action's method resolves: the finally of executeAction
DirectCallResolves(t) ==
  /\ ~MicrotaskPending
  /\ Pc(t) = "toolOp"
  /\ turns[t].fly[1] \in {"idle", "ended"}
  /\ buttonsEnabled' = TRUE
  /\ turns' = [turns EXCEPT ![t].pc = "done", ![t].fly = <<>>]
  /\ UNCHANGED <<relay, evaluated, availableActions, actionLogs, currentLogId, env, instances, imports, streams, calls, nTurns>>

\* The selected action's method throws
DirectCallRejects(t) ==
  /\ ~MicrotaskPending
  /\ Pc(t) = "toolOp"
  /\ turns[t].fly[1] \in {"idle", "errored"}
  /\ turns' = [turns EXCEPT ![t].pc = "toolRejected", ![t].fly = <<>>,
                            ![t].error = OperationErrorMessage]
  /\ UNCHANGED <<relay, evaluated, availableActions, actionLogs, currentLogId, buttonsEnabled, env, instances, imports, streams, calls, nTurns>>

----------------------------------------------------------------------------
(* The notifications of an operation in flight: the callbacks given to AIActions *)
(* An operation streams at most once: start, any number of partial results, then  *)
(* end (and the operation resolves) or error (and the operation throws).          *)

PartialTexts == {"He", LongText}
FullTexts == {ShortText}

Streams(t, j) == Pc(t) \in {"batch", "toolOp"} /\ j \in InFlight(t)

OnStreamingStart(t, j) ==
  /\ ~MicrotaskPending
  /\ Streams(t, j)
  /\ turns[t].fly[j] = "idle"
  /\ streams < MaxStreams
  /\ streams' = streams + 1
  /\ buttonsEnabled' = FALSE
  /\ actionLogs' = updateCurrentLog(actionLogs, [status |-> "Processing..."])
  /\ turns' = [turns EXCEPT ![t].fly[j] = "started"]
  /\ UNCHANGED <<relay, evaluated, availableActions, currentLogId, env, instances, imports, calls, nTurns>>

\* An onStreamingPartialResult that adds the new text to the partial result so far
OnStreamingPartialResultAccumulates(t, j, text) ==
  /\ ~MicrotaskPending
  /\ Streams(t, j)
  /\ turns[t].fly[j] \in {"started", "streaming"}
  /\ LET sofar == actionLogs[Len(actionLogs)].partialResult
     IN actionLogs' = updateCurrentLog(actionLogs,
                        [status |-> "Streaming...",
                         partialResult |-> truncateText(
                           IF sofar = null THEN text ELSE sofar \o text, MaxLength)])
  /\ turns' = [turns EXCEPT ![t].fly[j] = "streaming"]
  /\ UNCHANGED <<relay, evaluated, availableActions, currentLogId, buttonsEnabled, env, instances, imports, streams, calls, nTurns>>

\* onStreamingPartialResult
OnStreamingPartialResult(t, j, text) ==
  /\ ~MicrotaskPending
  /\ Streams(t, j)
  /\ turns[t].fly[j] \in {"started", "streaming"}
  /\ actionLogs' = updateCurrentLog(actionLogs,
                     [status |-> "Streaming...",
                      partialResult |-> truncateText(text, MaxLength)])
  /\ turns' = [turns EXCEPT ![t].fly[j] = "streaming"]
  /\ UNCHANGED <<relay, evaluated, availableActions, currentLogId, buttonsEnabled, env, instances, imports, streams, calls, nTurns>>

OnStreamingEnd(t, j, text) ==
  /\ ~MicrotaskPending
  /\ Streams(t, j)
  /\ turns[t].fly[j] \in {"started", "streaming"}
  /\ actionLogs' = updateCurrentLog(actionLogs,
                     [status |-> "Done.",
                      fullResult |-> truncateText(String(text), MaxLength)])
  /\ turns' = [turns EXCEPT ![t].fly[j] = "ended"]
  /\ UNCHANGED <<relay, evaluated, availableActions, currentLogId, buttonsEnabled, env, instances, imports, streams, calls, nTurns>>

OnError(t, j) ==
  /\ ~MicrotaskPending
  /\ Streams(t, j)
  /\ turns[t].fly[j] \in {"idle", "started", "streaming"}
  /\ actionLogs' = updateCurrentLog(actionLogs,
                     [status |-> "Error", error |-> OperationErrorMessage])
  /\ turns' = [turns EXCEPT ![t].fly[j] = "errored"]
  /\ UNCHANGED <<relay, evaluated, availableActions, currentLogId, buttonsEnabled, env, instances, imports, streams, calls, nTurns>>

----------------------------------------------------------------------------

Indexes == 1..MaxCalls

Next ==
  \/ ImportDocument
  \/ \E k \in 1..Len(instances) : OnReady(k)
  \/ \E k \in 1..Len(instances) : InitializationFails(k)
  \/ \E p \in Prompts : RejectTrigger(p)
  \/ \E m \in Modes, p \in Prompts, sel \in SelectableActions : ExecuteAction(m, p, sel)
  \/ \E t \in Turns, r \in Responses : FetchSettles(t, r)
  \/ \E t \in Turns : HandleOpenPromptCatch(t)
  \/ \E t \in Turns : ExecuteActionCatch(t)
  \/ \E t \in Turns : ExecuteActionResume(t)
  \/ \E t \in Turns : ExecuteToolCall(t)
  \/ \E t \in Turns, j \in Indexes : ToolCallResolves(t, j)
  \/ \E t \in Turns, j \in Indexes : ToolCallRejects(t, j)
  \/ \E t \in Turns : FinishBatch(t)
  \/ \E t \in Turns : WaitUntilReadySettles(t)
  \/ \E t \in Turns : DirectCallResolves(t)
  \/ \E t \in Turns : DirectCallRejects(t)
  \/ \E t \in Turns, j \in Indexes : OnStreamingStart(t, j)
  \/ \E t \in Turns, j \in Indexes, text \in PartialTexts : OnStreamingPartialResult(t, j, text)
  \/ \E t \in Turns, j \in Indexes, text \in FullTexts : OnStreamingEnd(t, j, text)
  \/ \E t \in Turns, j \in Indexes : OnError(t, j)

Spec == Init /\ [][Next]_vars

\* The program under fairness, for the claims about what eventually happens.  To keep
\* the check of a liveness property small, a reply holds at most MaxLiveCalls tool calls
\* and a streaming operation reports one partial text.
MaxLiveCalls == 1
LiveResponses == {r \in Responses : Len(r.data.tool_calls) <= MaxLiveCalls}
LivePartialTexts == {"He"}

NextLive ==
  \/ ImportDocument
  \/ \E k \in 1..Len(instances) : OnReady(k)
  \/ \E k \in 1..Len(instances) : InitializationFails(k)
  \/ \E p \in Prompts : RejectTrigger(p)
  \/ \E m \in Modes, p \in Prompts, sel \in SelectableActions : ExecuteAction(m, p, sel)
  \/ \E t \in Turns, r \in LiveResponses : FetchSettles(t, r)
  \/ \E t \in Turns : HandleOpenPromptCatch(t)
  \/ \E t \in Turns : ExecuteActionCatch(t)
  \/ \E t \in Turns : ExecuteActionResume(t)
  \/ \E t \in Turns : ExecuteToolCall(t)
  \/ \E t \in Turns, j \in Indexes : ToolCallResolves(t, j)
  \/ \E t \in Turns, j \in Indexes : ToolCallRejects(t, j)
  \/ \E t \in Turns : FinishBatch(t)
  \/ \E t \in Turns : WaitUntilReadySettles(t)
  \/ \E t \in Turns : DirectCallResolves(t)
  \/ \E t \in Turns : DirectCallRejects(t)
  \/ \E t \in Turns, j \in Indexes : OnStreamingStart(t, j)
  \/ \E t \in Turns, j \in Indexes, text \in LivePartialTexts :
       OnStreamingPartialResult(t, j, text)
  \/ \E t \in Turns, j \in Indexes, text \in FullTexts : OnStreamingEnd(t, j, text)
  \/ \E t \in Turns, j \in Indexes : OnError(t, j)

\* Fairness: everything a turn waits for settles: the network call and
\* every operation complete or fail (a stream that has started ends or fails), the
\* AIActions objects become ready or fail, and the continuations of the turn run.
TurnProgress(t) ==
  \/ \E r \in LiveResponses : FetchSettles(t, r)
  \/ HandleOpenPromptCatch(t)
  \/ ExecuteActionCatch(t)
  \/ ExecuteActionResume(t)
  \/ ExecuteToolCall(t)
  \/ FinishBatch(t)
  \/ WaitUntilReadySettles(t)
  \/ DirectCallResolves(t)
  \/ DirectCallRejects(t)
  \/ \E j \in Indexes :
       \/ ToolCallResolves(t, j)
       \/ ToolCallRejects(t, j)
       \/ \E text \in FullTexts : OnStreamingEnd(t, j, text)
       \/ OnError(t, j)

InstanceSettles == \E k \in 1..Len(instances) : OnReady(k) \/ InitializationFails(k)

Fairness == (\A t \in Turns : WF_vars(TurnProgress(t))) /\ WF_vars(InstanceSettles)

SpecLive == Init /\ [][NextLive]_vars /\ Fairness

----------------------------------------------------------------------------
(* The class-based draft of the component (App.vue 478-718), in which the log belongs
   to an ActionLogger object *)

\* new ActionLogger(): the log of a logger that has just been constructed
ActionLogger == <<>>

\* onReady of AIActions object k in the class-based draft: besides opening the gate it
\* replaces the logger, whose log is the one the panel shows, and the handler. The
\* callback is taken here between two calls of executeAction: a call in flight keeps
\* the logger its handler was built with, which this module does not follow. The id
\* counter either lives in the logger (and starts again) or outside it (and goes on).
OnReadyLogger(k) ==
  /\ ~MicrotaskPending
  /\ \A t \in Turns : Pc(t) \in {"idle", "done"}
  /\ instances[k] = "connecting"
  /\ instances' = [instances EXCEPT ![k] = "ready"]
  /\ buttonsEnabled' = TRUE
  /\ actionLogs' = ActionLogger
  /\ currentLogId' \in {0, currentLogId}
  /\ UNCHANGED <<relay, evaluated, availableActions, env, imports, streams, calls, nTurns, turns>>

NextLogger ==
  \/ ImportDocument
  \/ \E k \in 1..Len(instances) : OnReadyLogger(k)
  \/ \E k \in 1..Len(instances) : InitializationFails(k)
  \/ \E p \in Prompts : RejectTrigger(p)
  \/ \E m \in Modes, p \in Prompts, sel \in SelectableActions : ExecuteAction(m, p, sel)
  \/ \E t \in Turns, r \in Responses : FetchSettles(t, r)
  \/ \E t \in Turns : HandleOpenPromptCatch(t)
  \/ \E t \in Turns : ExecuteActionCatch(t)
  \/ \E t \in Turns : ExecuteActionResume(t)
  \/ \E t \in Turns : ExecuteToolCall(t)
  \/ \E t \in Turns, j \in Indexes : ToolCallResolves(t, j)
  \/ \E t \in Turns, j \in Indexes : ToolCallRejects(t, j)
  \/ \E t \in Turns : FinishBatch(t)
  \/ \E t \in Turns : WaitUntilReadySettles(t)
  \/ \E t \in Turns : DirectCallResolves(t)
  \/ \E t \in Turns : DirectCallRejects(t)
  \/ \E t \in Turns, j \in Indexes : OnStreamingStart(t, j)
  \/ \E t \in Turns, j \in Indexes, text \in PartialTexts : OnStreamingPartialResult(t, j, text)
  \/ \E t \in Turns, j \in Indexes, text \in FullTexts : OnStreamingEnd(t, j, text)
  \/ \E t \in Turns, j \in Indexes : OnError(t, j)

SpecLogger == Init /\ [][NextLogger]_vars

----------------------------------------------------------------------------
(* The helpers of actions.js applied on their own *)

\* Response bodies: with and without a first message, with and without tool calls,
\* message content null, empty or a text, top-level content absent, empty or a text
PureData ==
  {Data(m, calls_, c, top) :
     m \in BOOLEAN, calls_ \in {<<>>} \cup Batches,
     c \in {null, "", ShortText, LongText}, top \in {undefined, "", "top-level text"}}

\* Lines 142-165 of handleOpenPrompt applied to a response body
EvalClassify(data) ==
  /\ evaluated' = [function |-> "Classify", argument |-> data, value |-> Classify(data)]
  /\ UNCHANGED <<component, relay>>

\* Lists of actions: the first entries of the registry and of the dictionary
ActionLists ==
  {SubSeq(buildAvailableActions, 1, n) : n \in 0..Len(actionsDictionary)}
  \cup {SubSeq(actionsDictionary, 1, n) : n \in 0..Len(actionsDictionary)}

\* buildToolsArray applied to a list of actions
EvalBuildToolsArray(actions) ==
  /\ evaluated' = [function |-> "buildToolsArray", argument |-> actions,
                   value |-> buildToolsArray(actions)]
  /\ UNCHANGED <<component, relay>>

\* Texts of every length up to MaxTextLength, of letters and of full stops, and the
\* absent values
Texts ==
  {SubSeq(Rep("abcdefghij", 12), 1, n) : n \in 0..MaxTextLength}
  \cup {SubSeq(Rep("..........", 12), 1, n) : n \in 0..MaxTextLength}
  \cup {null, undefined}

\* truncateText(text, 100), as its callers call it
EvalTruncateText(text) ==
  /\ evaluated' = [function |-> "truncateText", argument |-> text,
                   value |-> truncateText(text, MaxLength)]
  /\ UNCHANGED <<component, relay>>

\* truncateText applied to its own result
EvalTruncateTextTwice(text) ==
  /\ evaluated' = [function |-> "truncateText twice", argument |-> text,
                   value |-> truncateText(truncateText(text, MaxLength), MaxLength)]
  /\ UNCHANGED <<component, relay>>

InitPure == Init /\ env.proxyUrl

NextPure ==
  \/ \E data \in PureData : EvalClassify(data)
  \/ \E actions \in ActionLists : EvalBuildToolsArray(actions)
  \/ \E text \in Texts : EvalTruncateText(text)
  \/ \E text \in Texts : EvalTruncateTextTwice(text)

SpecPure == InitPure /\ [][NextPure]_vars

----------------------------------------------------------------------------
(* The relay service (proxy/server.js): one request at a time, from its arrival  *)
(* to the reply.  The handlers keep no state between requests.                   *)

DefaultModel == "gpt-4o-mini"
UpstreamUrl == "https://api.openai.com/v1/chat/completions"
MissingCredentialMessage == "OPENAI_API_KEY not configured"
InternalErrorMessage == "Internal server error"

\* process.env.OPENAI_API_KEY: not set, set to the empty string, or set
Keys == {undefined, "", "sk-test"}

\* { ...a, ...b }: the members of b, and the members of a that b does not have
Spread(a, b) ==
  [k \in DOMAIN a \cup DOMAIN b |-> IF k \in DOMAIN b THEN b[k] ELSE a[k]]

\* The bodies a client posts: each member is there or not; a model member may be null
ModelMembers == {NoMembers, [model |-> "gpt-4o"], [model |-> null]}
StreamMembers == {NoMembers, [stream |-> TRUE], [stream |-> FALSE]}
MessagesMembers == {NoMembers, [messages |-> "[{role:user,content:Make the title bold}]"]}
ToolsMembers == {NoMembers, [tools |-> "[highlight]", tool_choice |-> "auto"]}
Bodies ==
  {Spread(Spread(Spread(m, st), ms), tl) :
     m \in ModelMembers, st \in StreamMembers, ms \in MessagesMembers, tl \in ToolsMembers}

\* if (!openaiApiKey)
CredentialMissingOnlyUnset(openaiApiKey) == openaiApiKey = undefined
CredentialMissing(openaiApiKey) == Falsy(openaiApiKey)

\* The fetch of the handler: the request sent upstream
UpstreamRequestKeepsStream(openaiApiKey, body) ==
  [url |-> UpstreamUrl,
   method |-> "POST",
   authorization |-> "Bearer " \o openaiApiKey,
   body |-> Spread([model |-> DefaultModel, stream |-> FALSE], body)]
UpstreamRequest(openaiApiKey, body) ==
  [url |-> UpstreamUrl,
   method |-> "POST",
   authorization |-> "Bearer " \o openaiApiKey,
   body |-> Spread(Spread([model |-> DefaultModel], body), [stream |-> FALSE])]

\* What the upstream call does: fetch rejects, or it resolves with a response of some
\* status whose body can then be read (read) or not
Ok(status) == status \in 200..299
UpstreamStatuses == {200, 400, 401, 429, 500}
UpstreamText(status) ==
  IF Ok(status) THEN "{choices:[...]}" ELSE "upstream error " \o ToString(status)
UpstreamOutcomes ==
  {[fetch |-> "rejected", status |-> 0, read |-> FALSE, text |-> ""]}
  \cup {[fetch |-> "resolved", status |-> st, read |-> rd, text |-> UpstreamText(st)] :
          st \in UpstreamStatuses, rd \in BOOLEAN}

Reply(code, payload) == [code |-> code, payload |-> payload]

\* The handler from the fetch to its return
RelayReplyHidesStatus(outcome) ==
  IF outcome.fetch = "resolved" /\ outcome.read /\ Ok(outcome.status)
  THEN Reply(200, [data |-> outcome.text])
  ELSE Reply(500, [error |-> InternalErrorMessage])
RelayReply(outcome) ==
  IF outcome.fetch = "rejected" \/ ~outcome.read
  THEN Reply(500, [error |-> InternalErrorMessage])
  ELSE IF ~Ok(outcome.status)
       THEN Reply(outcome.status, [error |-> outcome.text])
       ELSE Reply(200, [data |-> outcome.text])

\* fastify.post('/'): up to the first await, or to the return when no key is configured
RelayPost(openaiApiKey, body) ==
  /\ relay.pc \in {"idle", "replied"}
  /\ relay' =
       IF CredentialMissing(openaiApiKey)
       THEN [pc |-> "replied", route |-> "/", key |-> openaiApiKey, body |-> body,
             forwarded |-> <<>>, response |-> <<>>,
             reply |-> <<Reply(500, [error |-> MissingCredentialMessage])>>]
       ELSE [pc |-> "fetching", route |-> "/", key |-> openaiApiKey, body |-> body,
             forwarded |-> <<UpstreamRequest(openaiApiKey, body)>>, response |-> <<>>,
             reply |-> <<>>]
  /\ UNCHANGED <<component, evaluated>>

\* the upstream call settles and the handler returns
UpstreamSettles(outcome) ==
  /\ relay.pc = "fetching"
  /\ relay' = [relay EXCEPT !.pc = "replied",
                            !.response = <<outcome>>,
                            !.reply = <<RelayReply(outcome)>>]
  /\ UNCHANGED <<component, evaluated>>

\* fastify.get('/health')
RelayHealth ==
  /\ relay.pc \in {"idle", "replied"}
  /\ relay' = [RelayIdle EXCEPT
                 !.pc = "replied", !.route = "/health",
                 !.reply = <<Reply(200, [status |-> "OK",
                                         service |-> "SuperDoc AI Proxy"])>>]
  /\ UNCHANGED <<component, evaluated>>

NextRelay ==
  \/ \E openaiApiKey \in Keys, body \in Bodies : RelayPost(openaiApiKey, body)
  \/ \E outcome \in UpstreamOutcomes : UpstreamSettles(outcome)
  \/ RelayHealth

SpecRelay == Init /\ [][NextRelay]_vars

----------------------------------------------------------------------------
(* Properties *)

InFlightTurn(t) == Pc(t) \notin {"idle", "done"}

IsBatchTurn(t) == turns[t].response.type = "tool_calls"

BatchOf(t) == turns[t].response.toolCalls

\* The record with a given id (ids are never reused)
HasRecord(id) == findIndex(actionLogs, id) # 0
RecordById(id) == actionLogs[findIndex(actionLogs, id)]

TerminalStatuses ==
  {"Done.", "Error", "Open prompt failed.", "No tools were run."}
  \cup {AllCompletedStatus(n) : n \in 0..(MaxCalls + 1)}

ProcessingStatuses ==
  {"Processing open prompt...", "Processing..."}
  \cup {ExecutingStatus(n) : n \in 0..(MaxCalls + 1)}

Stage(status) ==
  IF status = "Starting..." THEN 0
  ELSE IF status \in ProcessingStatuses THEN 1
  ELSE IF status = "Streaming..." THEN 2
  ELSE 3

\* C1: within a batch the operations run one at a time and in the model's order: an
\* operation of tool call j is in flight only when it is the only one of its batch and
\* every tool call before j has already produced its result line, and the operations
\* invoked so far were invoked in increasing index order, each being the one its tool
\* call names.
C1_OneAtATimeInOrder ==
  \A t \in Turns :
    turns[t].mode = "prompt" =>
      /\ Cardinality(InFlight(t)) <= 1
      /\ \A j \in InFlight(t) : Len(turns[t].results) = j - 1 /\ turns[t].next = j + 1
      /\ \A a \in 1..Len(turns[t].invoked) :
           /\ turns[t].invoked[a].method = BatchOf(t)[turns[t].invoked[a].index].name
           /\ \A b \in 1..(a - 1) : turns[t].invoked[b].index < turns[t].invoked[a].index

\* C1 witness: the second operation of a batch is in flight after the first has run
C1_Witness ==
  \E t \in Turns : 2 \in InFlight(t) /\ Len(turns[t].invoked) = 2 /\ Len(turns[t].results) = 1

\* C2: once every tool call of a turn's batch has finished, the turn's own record,
\* found by its id, has the status "All N function calls completed.".
C2_OriginalRecordCompleted ==
  \A t \in Turns :
    (Pc(t) = "done" /\ IsBatchTurn(t) /\ Len(turns[t].results) = Len(BatchOf(t))) =>
      /\ HasRecord(turns[t].originalLogId)
      /\ RecordById(turns[t].originalLogId).status = AllCompletedStatus(Len(BatchOf(t)))

WellFormed(toolCall) == JSONparse(toolCall.arguments).ok /\ JSONparse(toolCall.arguments).isObject

\* The step in which the operation of tool call j of turn t throws
OperationThrows(t, j) ==
  /\ Pc(t) = "batch"
  /\ j \in InFlight(t)
  /\ j \notin DOMAIN turns'[t].fly
  /\ Len(turns'[t].results) = Len(turns[t].results) + 1
  /\ turns'[t].results[Len(turns'[t].results)] =
       ErrorLine(availableActions[FindAction(BatchOf(t)[j].name)].label, OperationErrorMessage)

\* C3: when the operation of a tool call throws, the record appended for that tool call
\* gets status "Error" and the failure message, and a batch whose arguments are all
\* well formed ends with one result line per tool call.
C3_FailureStaysLocal ==
  /\ [][\A t \in Turns, j \in Indexes :
          OperationThrows(t, j) =>
            LET k == findIndex(actionLogs', turns[t].logIds[j])
            IN /\ actionLogs'[k].status = "Error"
               /\ actionLogs'[k].error = OperationErrorMessage]_vars
  /\ [](\A t \in Turns :
          (Pc(t) = "done" /\ IsBatchTurn(t)
             /\ \A j \in 1..Len(BatchOf(t)) : WellFormed(BatchOf(t)[j]))
          => Len(turns[t].results) = Len(BatchOf(t)))

Unresolved(toolCall) == FindAction(toolCall.name) = 0

\* C4: a finished batch that holds unresolvable names has one result line per tool call,
\* in the order of the tool calls; each unresolved name has its "Tool not found" line at
\* its own position, a record of its own with status "Error" and error "Tool not found",
\* and no operation invoked.
C4_UnresolvedNamesRecovered ==
  \A t \in Turns :
    (Pc(t) = "done" /\ IsBatchTurn(t) /\ \E j \in 1..Len(BatchOf(t)) : Unresolved(BatchOf(t)[j])) =>
      /\ Len(turns[t].results) = Len(BatchOf(t))
      /\ \A j \in 1..Len(BatchOf(t)) :
           Unresolved(BatchOf(t)[j]) =>
             /\ turns[t].results[j] = NotFoundLine(BatchOf(t)[j].name)
             /\ j \in DOMAIN turns[t].logIds
             /\ RecordById(turns[t].logIds[j]).status = "Error"
             /\ RecordById(turns[t].logIds[j]).error = "Tool not found"
             /\ \A a \in 1..Len(turns[t].invoked) : turns[t].invoked[a].index # j

\* C5: a tool call whose arguments do not parse fails alone: every tool call that
\* follows it in the batch is still executed.
C5_MalformedArgumentsStayLocal ==
  \A t \in Turns :
    (Pc(t) = "done" /\ IsBatchTurn(t)) =>
      \A j \in 1..Len(BatchOf(t)) :
        ~JSONparse(BatchOf(t)[j].arguments).ok =>
          \A later \in (j + 1)..Len(BatchOf(t)) : later < turns[t].next

\* C6: a record that has reached a terminal status keeps that status.
C6_TerminalStatusIsFinal ==
  [][\A k \in 1..Len(actionLogs) :
       actionLogs[k].status \in TerminalStatuses =>
         actionLogs'[k].status = actionLogs[k].status]_vars

\* C7: the status of a record never moves back to an earlier stage.
C7_NoBackwardTransition ==
  [][\A k \in 1..Len(actionLogs) :
       Stage(actionLogs'[k].status) >= Stage(actionLogs[k].status)]_vars

\* handleOpenPrompt has just thrown the error with this message to executeAction
Reraised(t, message) == Pc(t) = "hopRejected" /\ turns[t].error = message

\* C8: without an endpoint URL a prompt turn fails before anything is sent. When
\* handleOpenPrompt re-raises the configuration error, the turn has sent no request and
\* invoked no operation, its record is still the last one of the log, and that record
\* has status "Open prompt failed." and the configuration message as its error; and a
\* prompt turn never gets past handleOpenPrompt.
C8_ConfigurationErrorFailsFast ==
  \A t \in Turns :
    (~env.proxyUrl /\ turns[t].mode = "prompt" /\ Pc(t) # "idle") =>
      /\ Pc(t) \in {"hopCatch", "hopRejected", "done"}
      /\ turns[t].error = ConfigurationErrorMessage
      /\ turns[t].requests = 0
      /\ turns[t].invoked = <<>>
      /\ turns[t].logIds = <<>>
      /\ (Pc(t) = "hopRejected" =>
            /\ currentLogId = turns[t].originalLogId + 1
            /\ actionLogs[Len(actionLogs)].id = turns[t].originalLogId
            /\ actionLogs[Len(actionLogs)].status = "Open prompt failed."
            /\ actionLogs[Len(actionLogs)].error = ConfigurationErrorMessage)

\* C8 witness: the configuration error has been recorded and re-raised, for the first
\* turn of a session and for a later one
C8_Witness ==
  /\ Reraised(2, ConfigurationErrorMessage)
  /\ Pc(1) = "done" /\ turns[1].error = ConfigurationErrorMessage

\* C9: when the endpoint answers with a non-success status, the error that
\* handleOpenPrompt re-raises carries the status, the turn's own record has status
\* "Open prompt failed." and that message, and no tool call was executed or logged.
C9_HttpErrorAbortsTurn ==
  \A t \in Turns, st \in HttpErrorStatuses :
    Reraised(t, HttpErrorMessage(st)) =>
      /\ RecordById(turns[t].originalLogId).status = "Open prompt failed."
      /\ RecordById(turns[t].originalLogId).error = HttpErrorMessage(st)
      /\ turns[t].invoked = <<>>
      /\ turns[t].logIds = <<>>

\* C10: while a turn is in flight the gate is closed.
C10_GateClosedDuringTurn ==
  \A t \in Turns : InFlightTurn(t) => ~buttonsEnabled

\* C11: the ids of the records increase strictly along the log, so they are pairwise
\* distinct: of any two records, the one appended later has the larger id.
C11_IdsIncrease ==
  \A a, b \in 1..Len(actionLogs) : a < b => actionLogs[a].id < actionLogs[b].id

\* C11 witness: the log holds the records of two turns and of a tool call
C11_Witness ==
  /\ Len(actionLogs) >= 3
  /\ \E t \in Turns : turns[t].logIds # <<>>
  /\ Pc(2) # "idle"

\* C12: the log only grows at its end: every step keeps every record at its position,
\* with its id, so the earlier log is a prefix (by id) of the later one and a failed
\* record stays in the log.
C12_LogIsAppendOnly ==
  [][/\ Len(actionLogs') >= Len(actionLogs)
     /\ \A k \in 1..Len(actionLogs) : actionLogs'[k].id = actionLogs[k].id]_vars

\* C13: a prompt turn sends exactly one request to the endpoint, whatever its outcome,
\* and none when the endpoint URL is not configured (it then fails with the
\* configuration error); a request that failed is not sent again.
C13_OneRequestPerTurn ==
  \A t \in Turns :
    (turns[t].mode = "prompt" /\ Pc(t) # "idle") =>
      IF env.proxyUrl
      THEN turns[t].requests = 1
      ELSE turns[t].requests = 0 /\ turns[t].error = ConfigurationErrorMessage

\* C13 witness: a turn whose request failed has ended, and a second turn has run
C13_Witness ==
  /\ Pc(1) = "done" /\ turns[1].mode = "prompt"
  /\ turns[1].error \in {HttpErrorMessage(st) : st \in HttpErrorStatuses} \cup {NetworkErrorMessage}
  /\ turns[1].requests = 1
  /\ Pc(2) = "done" /\ turns[2].mode = "prompt" /\ turns[2].requests = 1

Empty(x) == x \in {"", null, undefined}

\* C14: a response body whose first message carries tool calls is classified as
\* 'tool_calls' with those calls in their order and their number as count; any other
\* body is classified as text, whose content is the message content when there is
\* one, else the top-level content when there is one, else the serialized body, and
\* is never empty.
C14_Classification ==
  evaluated.function = "Classify" =>
    LET d == evaluated.argument
        v == evaluated.value
    IN IF d.message /\ Len(d.tool_calls) >= 1
       THEN v.type = "tool_calls" /\ v.toolCalls = d.tool_calls /\ v.count = Len(d.tool_calls)
       ELSE /\ v.type = "text_response"
            /\ ~Empty(v.content)
            /\ v.content = IF d.message /\ ~Empty(d.content) THEN d.content
                           ELSE IF ~Empty(d.topContent) THEN d.topContent
                           ELSE Stringify(d)

\* C14 witness: a body with an empty message content and no top-level content has
\* been classified, so the content is the serialized body
C14_Witness ==
  /\ evaluated.function = "Classify"
  /\ evaluated.argument.message /\ evaluated.argument.tool_calls = <<>>
  /\ evaluated.argument.content = "" /\ evaluated.argument.topContent = undefined
  /\ evaluated.value.content = "{\"choices\":[{\"message\":{\"content\":\"\"}}]}"

\* C15: when a prompt turn whose reply was plain text is over, the turn's own record
\* has the status "No tools were run." and the reply cut to 100 characters as its
\* fullResult, the value returned to executeAction is the whole reply, no operation
\* was invoked and no record was appended for a tool call.
C15_TextReply ==
  \A t \in Turns :
    (Pc(t) = "done" /\ turns[t].response.type = "text_response") =>
      /\ RecordById(turns[t].originalLogId).status = "No tools were run."
      /\ RecordById(turns[t].originalLogId).fullResult =
           truncateText(turns[t].response.content, MaxLength)
      /\ turns[t].returned = turns[t].response.content
      /\ turns[t].invoked = <<>>
      /\ turns[t].logIds = <<>>

\* Every tool call of turn t names a registry action, has well-formed arguments and
\* has had its operation complete without throwing
AllSucceeded(t) ==
  /\ Pc(t) = "done" /\ IsBatchTurn(t)
  /\ Len(turns[t].results) = Len(BatchOf(t))
  /\ \A j \in 1..Len(BatchOf(t)) :
       /\ ~Unresolved(BatchOf(t)[j])
       /\ WellFormed(BatchOf(t)[j])
       /\ turns[t].results[j] #
            ErrorLine(availableActions[FindAction(BatchOf(t)[j].name)].label, OperationErrorMessage)

\* C16: when the N tool calls of a batch all resolve and succeed, each has a record of
\* its own, these N records stand in the log in the order of the tool calls and have
\* status "Done.", the turn's own record has status "All N function calls
\* completed.", and the summary returned is the N lines '[v] <label>: "<prompt>"' in
\* the order of the tool calls.
C16_SuccessfulBatch ==
  \A t \in Turns :
    AllSucceeded(t) =>
      LET N == Len(BatchOf(t))
          label(j) == availableActions[FindAction(BatchOf(t)[j].name)].label
          line(j) == DoneLine(label(j), JSONparse(BatchOf(t)[j].arguments).prompt)
      IN /\ DOMAIN turns[t].logIds = 1..N
         /\ \A j \in 1..N :
              /\ RecordById(turns[t].logIds[j]).status = "Done."
              /\ RecordById(turns[t].logIds[j]).action = label(j)
              /\ turns[t].results[j] = line(j)
         /\ \A j, k \in 1..N :
              j < k => findIndex(actionLogs, turns[t].logIds[j]) <
                       findIndex(actionLogs, turns[t].logIds[k])
         /\ RecordById(turns[t].originalLogId).status = AllCompletedStatus(N)
         /\ turns[t].returned = BatchSummary([j \in 1..N |-> line(j)])

\* C17: buildToolsArray gives one schema per action, in the order of the actions; the
\* schema of an action has the action's key as name and its description, and declares
\* exactly one property, the string "prompt", which is its only required parameter.
C17_OneSchemaPerAction ==
  evaluated.function = "buildToolsArray" =>
    LET actions == evaluated.argument
        tools == evaluated.value
    IN /\ Len(tools) = Len(actions)
       /\ \A k \in 1..Len(actions) :
            /\ tools[k].type = "function"
            /\ tools[k].function.name = actions[k].key
            /\ tools[k].function.description = actions[k].description
            /\ tools[k].function.parameters.type = "object"
            /\ DOMAIN tools[k].function.parameters.properties = {"prompt"}
            /\ tools[k].function.parameters.properties.prompt.type = "string"
            /\ tools[k].function.parameters.required = <<"prompt">>

\* C17 witness: the schemas of the whole registry have been built
C17_Witness ==
  /\ evaluated.function = "buildToolsArray"
  /\ evaluated.argument = buildAvailableActions
  /\ Len(evaluated.value) = 11
  /\ evaluated.value[1].function.name = "find"
  /\ evaluated.value[11].function.name = "summarize"

\* The value given to the registry at set-up is sorted by key, has pairwise distinct
\* keys and holds exactly the actions of the dictionary
StartupRegistryIsSorted ==
  LET actions == buildAvailableActions
  IN /\ \A a, b \in 1..Len(actions) : a < b => StringLess(actions[a].key, actions[b].key)
     /\ \A a, b \in 1..Len(actions) : actions[a].key = actions[b].key => a = b
     /\ Len(actions) = Len(actionsDictionary)
     /\ \A d \in 1..Len(actionsDictionary) :
          \E a \in 1..Len(actions) : actions[a] = actionsDictionary[d]

\* C18: the registry is sorted by key with pairwise distinct keys, and in every state,
\* whatever turns, tool calls and errors came before, it holds the same actions in the
\* same order as when the component was set up.
C18_RegistrySortedAndStable ==
  /\ availableActions = buildAvailableActions
  /\ StartupRegistryIsSorted

\* C18 witness: a batch has been executed, an operation has thrown and a turn has
\* ended with an error
C18_Witness ==
  /\ \E t \in Turns : Pc(t) = "done" /\ IsBatchTurn(t) /\ turns[t].invoked # <<>>
  /\ \E k \in 1..Len(actionLogs) : actionLogs[k].error = OperationErrorMessage
  /\ \E t \in Turns : Pc(t) = "done" /\ turns[t].error # null

\* C19: truncateText(text, 100) is the empty string for an empty or absent text, the
\* text itself when it has at most 100 characters, and otherwise the first 100
\* characters of the text followed by "...", 103 characters in all.
C19_Truncation ==
  evaluated.function = "truncateText" =>
    LET text == evaluated.argument
        value == evaluated.value
    IN IF text \in {"", null, undefined} THEN value = ""
       ELSE IF Len(text) <= 100 THEN value = text
       ELSE /\ Len(value) = 103
            /\ SubSeq(value, 1, 100) = SubSeq(text, 1, 100)
            /\ SubSeq(value, 101, 103) = "..."

\* C19 witness: a text of exactly 100 characters has been left as it is
C19_Witness ==
  /\ evaluated.function = "truncateText"
  /\ evaluated.argument \notin {null, undefined}
  /\ Len(evaluated.argument) = 100
  /\ evaluated.value = evaluated.argument

\* C20: truncating the result of a truncation changes nothing.
C20_TruncationIdempotent ==
  evaluated.function = "truncateText twice" =>
    evaluated.value = truncateText(evaluated.argument, MaxLength)

\* C20 witness: a text of more than 100 characters has been truncated twice, the
\* second time from a text of 103 characters
C20_Witness ==
  /\ evaluated.function = "truncateText twice"
  /\ evaluated.argument \notin {null, undefined}
  /\ Len(evaluated.argument) = 104
  /\ Len(evaluated.value) = 103

----------------------------------------------------------------------------
(* The request of the mediator                                                *)

\* the turn is between the start and the end of its network call
InCallOpenAI(t) == Pc(t) = "callOpenAI"

----------------------------------------------------------------------------
(* The relay service                                                          *)

\* the relay has taken a request to its proxy endpoint
Posted == relay.pc # "idle" /\ relay.route = "/"

\* C22: a request received while no upstream credential is configured is answered
\* with status 500 and an error body naming the missing credential, and nothing is
\* sent upstream.
C22_MissingCredential ==
  (Posted /\ relay.key \in {undefined, ""}) =>
    /\ relay.pc = "replied"
    /\ relay.reply = <<Reply(500, [error |-> "OPENAI_API_KEY not configured"])>>
    /\ relay.forwarded = <<>>

\* C22 witness: a request with a body has been answered while the credential was
\* set to the empty string
C22_Witness ==
  /\ Posted
  /\ relay.key = ""
  /\ "messages" \in DOMAIN relay.body
  /\ relay.pc = "replied"
  /\ relay.reply[1].code = 500

\* C23: an upstream answer with a non-success status is passed on with the same
\* status and the upstream error text; a failed upstream call is answered with 500.
C23_UpstreamErrors ==
  (Posted /\ relay.response # <<>>) =>
    LET outcome == relay.response[1]
    IN /\ relay.pc = "replied"
       /\ (outcome.fetch = "resolved" /\ outcome.read /\ outcome.status \notin 200..299) =>
            relay.reply = <<Reply(outcome.status, [error |-> outcome.text])>>
       /\ (outcome.fetch = "rejected" \/ ~outcome.read) =>
            /\ Len(relay.reply) = 1
            /\ relay.reply[1].code = 500

\* C23 witness: the upstream provider has answered 429 and the relay has replied 429
C23_Witness ==
  /\ Posted
  /\ relay.response # <<>>
  /\ relay.response[1].fetch = "resolved"
  /\ relay.response[1].read
  /\ relay.response[1].status = 429
  /\ relay.reply[1].code = 429

\* C24: every request forwarded upstream has stream = false, carries the model of
\* the client's body when the body has a model member and the default model
\* otherwise, and has all other members of the client's body unchanged.
C24_ForwardedBody ==
  \A i \in 1..Len(relay.forwarded) :
    LET sent == relay.forwarded[i].body
        body == relay.body
    IN /\ DOMAIN sent = DOMAIN body \cup {"model", "stream"}
       /\ sent.stream = FALSE
       /\ sent.model = IF "model" \in DOMAIN body THEN body.model ELSE "gpt-4o-mini"
       /\ \A k \in DOMAIN body \ {"model", "stream"} : sent[k] = body[k]

\* C24 witness: a body that asks for streaming and names no model has been forwarded
C24_Witness ==
  /\ Posted
  /\ Len(relay.forwarded) = 1
  /\ "stream" \in DOMAIN relay.body
  /\ relay.body.stream = TRUE
  /\ "model" \notin DOMAIN relay.body
  /\ "tools" \in DOMAIN relay.body

----------------------------------------------------------------------------
(* The end of a turn                                                          *)

\* The ids of the records created during turn t: its own and one per tool call
RecordsOf(t) ==
  {turns[t].originalLogId} \cup {turns[t].logIds[j] : j \in DOMAIN turns[t].logIds}

\* the step in which executeAction of turn t finishes (its finally block has run)
TurnEnds(t) == Pc(t) # "done" /\ turns'[t].pc = "done"

\* C25: when a prompt turn is over, whatever its outcome, every record created
\* during the turn, its own record included, has a terminal status.
C25_RecordsTerminalAtEnd ==
  [][\A t \in Turns :
       (TurnEnds(t) /\ turns[t].mode = "prompt") =>
         \A id \in RecordsOf(t)' :
           LET k == findIndex(actionLogs', id)
           IN k # 0 /\ actionLogs'[k].status \in TerminalStatuses]_vars

\* C26: when everything a turn waits for settles, every accepted turn ends, and it
\* ends with the gate set back to true.
C26_TurnEndsWithGateOpen ==
  \A t \in Turns : InFlightTurn(t) ~> (Pc(t) = "done" /\ buttonsEnabled)

\* C26 witness: a turn whose batch was aborted by an exception has ended, and the gate
\* is open
C26_Witness ==
  \E t \in Turns :
    /\ Pc(t) = "done"
    /\ turns[t].mode = "prompt"
    /\ IsBatchTurn(t)
    /\ Len(turns[t].results) < Len(BatchOf(t))
    /\ buttonsEnabled

----------------------------------------------------------------------------
(* The record of an invocation                                                *)

\* the operation of tool call j of the batch of turn t is in flight
OperationInFlight(t, j) == Pc(t) = "batch" /\ j \in InFlight(t)

\* C27: while the operation of tool call j is in flight the last record of the log
\* is the record appended for j, and a step taken during the operation (a streaming
\* notification) modifies no other record.
C27_CurrentRecordIsTheInvocations ==
  [][\A t \in Turns, j \in Indexes :
       OperationInFlight(t, j) =>
         /\ j \in DOMAIN turns[t].logIds
         /\ actionLogs[Len(actionLogs)].id = turns[t].logIds[j]
         /\ OperationInFlight(t, j)' =>
              /\ Len(actionLogs') = Len(actionLogs)
              /\ \A k \in 1..Len(actionLogs) :
                   actionLogs[k].id # turns[t].logIds[j] => actionLogs'[k] = actionLogs[k]]_vars

\* the step in which turn t takes up the next tool call of its batch
InvocationStep(t) ==
  /\ Pc(t) = "batch"
  /\ turns'[t].next = turns[t].next + 1 \/ turns'[t].pc = "batchRejected"

\* C28: a tool call whose arguments parse appends exactly one record, after the
\* previous tool call has finished; when its operation is invoked, that record is
\* the last one, with status 'Starting...' and no partialResult, fullResult or error.
C28_OneFreshRecordPerInvocation ==
  [][\A t \in Turns :
       LET j == turns[t].next
       IN (InvocationStep(t) /\ JSONparse(BatchOf(t)[j].arguments).ok) =>
            /\ InFlight(t) = {}
            /\ Len(actionLogs') = Len(actionLogs) + 1
            /\ DOMAIN turns'[t].logIds = DOMAIN turns[t].logIds \cup {j}
            /\ j \in InFlight(t)' =>
                 LET last == actionLogs'[Len(actionLogs')]
                 IN /\ last.id = turns'[t].logIds[j]
                    /\ last.status = "Starting..."
                    /\ last.partialResult = null
                    /\ last.fullResult = null
                    /\ last.error = null]_vars

----------------------------------------------------------------------------
(* Dispatch                                                                   *)

\* the operations that turn t has invoked for tool call j of its batch
InvocationsOf(t, j) == {a \in 1..Len(turns[t].invoked) : turns[t].invoked[a].index = j}

\* C29: when a batch is over, every tool call whose name is the key of a registry
\* action (and whose arguments are an object) has invoked the operation of that
\* action, and no other, exactly once, with an AIActions object of the session and
\* its own prompt; a tool call whose name matches no key has invoked nothing.
C29_DispatchByKey ==
  \A t \in Turns :
    (Pc(t) = "done" /\ IsBatchTurn(t)) =>
      \A j \in 1..Len(BatchOf(t)) :
        LET toolCall == BatchOf(t)[j]
        IN IF Unresolved(toolCall)
           THEN InvocationsOf(t, j) = {}
           ELSE WellFormed(toolCall) =>
                  /\ Cardinality(InvocationsOf(t, j)) = 1
                  /\ \A a \in InvocationsOf(t, j) :
                       /\ turns[t].invoked[a].method = toolCall.name
                       /\ turns[t].invoked[a].method = availableActions[FindAction(toolCall.name)].method
                       /\ turns[t].invoked[a].prompt = JSONparse(toolCall.arguments).prompt
                       /\ turns[t].invoked[a].ai \in 1..Len(instances)

----------------------------------------------------------------------------
(* Streaming                                                                  *)

\* a step in which the operation of tool call j of turn t reports a partial result
PartialStep(t, j) ==
  /\ Streams(t, j)
  /\ turns[t].fly[j] \in {"started", "streaming"}
  /\ turns'[t].fly[j] = "streaming"
  /\ turns[t].fly[j] = "streaming" => (turns' = turns /\ actionLogs' # actionLogs)

\* C30: a streaming-partial notification leaves the record it is delivered to (the
\* last one) with status 'Streaming...' and with the truncation, of at most 103
\* characters, of the text of this notification alone as partialResult; it leaves
\* fullResult, every other field and every other record as they were.
C30_PartialResultOverwritten ==
  [][\A t \in Turns, j \in Indexes :
       PartialStep(t, j) =>
         LET n == Len(actionLogs)
         IN /\ n > 0
            /\ Len(actionLogs') = n
            /\ \A k \in 1..(n - 1) : actionLogs'[k] = actionLogs[k]
            /\ actionLogs'[n].status = "Streaming..."
            /\ \E text \in PartialTexts :
                 actionLogs'[n] = [actionLogs[n] EXCEPT
                                     !.status = "Streaming...",
                                     !.partialResult = truncateText(text, 100)]
            /\ Len(actionLogs'[n].partialResult) <= 103
            /\ actionLogs'[n].fullResult = actionLogs[n].fullResult]_vars

\* C30 witness: an operation is streaming after a partial text of 101 characters, and
\* the last record shows its first 100 characters and an ellipsis
C30_Witness ==
  /\ \E t \in Turns, j \in Indexes : Streams(t, j) /\ turns[t].fly[j] = "streaming"
  /\ actionLogs # <<>>
  /\ actionLogs[Len(actionLogs)].status = "Streaming..."
  /\ actionLogs[Len(actionLogs)].partialResult = SubSeq(LongText, 1, 100) \o "..."
  /\ actionLogs[Len(actionLogs)].fullResult = null

----------------------------------------------------------------------------
(* The record of a turn during its batch                                      *)

\* turn t has received a batch and has not finished or abandoned it
BatchUnderWay(t) == Pc(t) \in {"hopReturned", "batch"} /\ IsBatchTurn(t)

\* C31: from the moment handleOpenPrompt returns a batch of N tool calls, so before
\* the first tool call's record is appended and before any operation is invoked, and
\* for as long as the batch runs, the turn's own record has status
\* 'Executing N function call(s)...'.
C31_ExecutingDuringBatch ==
  \A t \in Turns :
    BatchUnderWay(t) =>
      /\ HasRecord(turns[t].originalLogId)
      /\ RecordById(turns[t].originalLogId).status = ExecutingStatus(Len(BatchOf(t)))
      /\ Pc(t) = "hopReturned" => (turns[t].logIds = <<>> /\ turns[t].invoked = <<>>)

----------------------------------------------------------------------------
(* Rejected triggers                                                          *)

\* a trigger can arrive and executeAction turns it away
TriggerRejected == TriggerEnabled /\ \E p \in Prompts : Rejects(p)

\* a step in which no turn starts or moves, no document is imported, no AIActions
\* object changes and no operation is streaming: no handler but a rejecting
\* executeAction has run
NoOtherHandler ==
  /\ turns' = turns
  /\ nTurns' = nTurns
  /\ instances' = instances
  /\ imports' = imports
  /\ \A t \in Turns, j \in Indexes : Streams(t, j) => turns[t].fly[j] # "streaming"

\* C32: a trigger that executeAction rejects changes nothing: the log, the id
\* counter and the gate keep their values, no request is sent and no operation is
\* invoked.
C32_RejectedTriggerChangesNothing ==
  [][(TriggerRejected /\ NoOtherHandler) =>
       /\ actionLogs' = actionLogs
       /\ currentLogId' = currentLogId
       /\ buttonsEnabled' = buttonsEnabled
       /\ calls' = calls
       /\ streams' = streams
       /\ \A t \in Turns : /\ turns'[t].requests = turns[t].requests
                           /\ turns'[t].invoked = turns[t].invoked]_vars

\* C32 witness: with an AI instance, a log that has records and the gate open, a
\* trigger with an empty or blank prompt is rejected
C32_Witness ==
  /\ TriggerRejected
  /\ aiInstance # 0
  /\ actionLogs # <<>>
  /\ \E t \in Turns : Pc(t) = "done"

----------------------------------------------------------------------------
(* Errors of a turn                                                           *)

\* an error has been thrown to executeAction of turn t: by handleOpenPrompt, by the
\* batch (argument parsing) or by waitUntilReady or the operation in tool mode
Raised(t) == Pc(t) \in {"hopRejected", "batchRejected", "toolRejected"}

\* C33: an error thrown to executeAction is caught: the next step of the turn ends
\* it normally, and writes status 'Error' and the message of the error on the last
\* record of the log and nothing else to the log.
C33_ErrorsAreCaught ==
  [][\A t \in Turns :
       (Raised(t) /\ turns'[t] # turns[t]) =>
         LET n == Len(actionLogs)
         IN /\ turns'[t] = [turns[t] EXCEPT !.pc = "done"]
            /\ n > 0
            /\ actionLogs' = [actionLogs EXCEPT
                                ![n] = [@ EXCEPT !.status = "Error",
                                                 !.error = turns[t].error]]
            /\ turns[t].error \notin {null, undefined, ""}]_vars

\* C33 witness: a turn whose batch met arguments that do not parse has ended, and the
\* last record carries 'Error' and the message of the parse error
C33_Witness ==
  \E t \in Turns :
    /\ Pc(t) = "done"
    /\ IsBatchTurn(t)
    /\ turns[t].error = SyntaxErrorMessage
    /\ actionLogs[Len(actionLogs)].status = "Error"
    /\ actionLogs[Len(actionLogs)].error = SyntaxErrorMessage

====
